---- MODULE Spec2Model ----
(***************************************************************************)
(* Model of the dense bitset engine of src/src/core/bitfield.h.            *)
(*                                                                         *)
(* A 64-bit word (Bitfield::ElementType) is the set of its one-bit         *)
(* positions, a subset of 0..63; arithmetic on words is modulo 2^64.       *)
(* A byte is the set of its one-bit positions, a subset of 0..7.  Storage  *)
(* is little-endian: byte k of a buffer is bits 8*(k%8)..8*(k%8)+7 of word *)
(* k \div 8.  An allocation of size_in_bytes bytes is modelled by the      *)
(* words 0..num_blocks: the bytes past size_in_bytes and the word at index *)
(* num_blocks lie outside the allocation, are never initialised by the     *)
(* code and hold whatever the allocator left there.                        *)
(***************************************************************************)
EXTENDS Integers, Sequences, FiniteSets, TLC

\* ------------------------------------------------------------------------
\* uint64 words
\* ------------------------------------------------------------------------
bits_per_block == 64

sizeof_ElementType == 8

BitPos == 0..(bits_per_block - 1)

Zero == {}

One == {0}

NOT(w) == BitPos \ w

AND(a, b) == a \cap b

OR(a, b) == a \cup b

XOR(a, b) == (a \ b) \cup (b \ a)

SHR(w, k) == {i - k : i \in {j \in w : j >= k}}

SHL(w, k) == {i + k : i \in {j \in w : j + k < bits_per_block}}

\* a + b + c0 modulo 2^64 (c0 = 0 or 1).  A carry is generated at every bit
\* where a and b are both 1 (and below bit 0 by the carry-in); it runs upwards
\* through the bits where a or b is 1 and enters the first bit where both are 0.
AddCarry(a, b, c0) ==
    LET Kill == (BitPos \cup {bits_per_block}) \ (a \cup b)
        Gen == (a \cap b) \cup (IF c0 = 1 THEN {-1} ELSE {})
        Stop(j) == CHOOSE k \in Kill : k > j /\ \A m \in Kill : m > j => k <= m
        CarryIn == UNION {(j + 1)..Stop(j) : j \in Gen}
    IN  {i \in BitPos : ((i \in a) # (i \in b)) # (i \in CarryIn)}

ADD(a, b) == AddCarry(a, b, 0)

SUB(a, b) == AddCarry(a, NOT(b), 1)

RECURSIVE MulFrom(_, _, _)
MulFrom(a, b, j) ==
    IF j = bits_per_block THEN Zero
    ELSE IF j \in b THEN ADD(SHL(a, j), MulFrom(a, b, j + 1))
         ELSE MulFrom(a, b, j + 1)

MUL(a, b) == MulFrom(a, b, 0)

\* value of a word known to be below 2^8 (the result of a shift by 56)
RECURSIVE ToInt(_)
ToInt(w) ==
    IF w = {} THEN 0
    ELSE LET i == CHOOSE x \in w : \A y \in w : y <= x
         IN  2 ^ i + ToInt(w \ {i})

\* ------------------------------------------------------------------------
\* struct Bitfield and namespace bitfield::detail
\* ------------------------------------------------------------------------
size_in_bytes(count) == (count + 8 - 1) \div 8

block_idx(idx) == idx \div bits_per_block

bit_pattern(idx) == SHL(One, idx % bits_per_block)

M5 == {i \in BitPos : i % 2 = 0}

M3 == {i \in BitPos : i % 4 < 2}

M0F == {i \in BitPos : i % 8 < 4}

M01 == {i \in BitPos : i % 8 = 0}

number_of_set_bits(i0) ==
    LET i1 == SUB(i0, AND(SHR(i0, 1), M5))
        i2 == ADD(AND(i1, M3), AND(SHR(i1, 2), M3))
        i3 == AND(ADD(i2, SHR(i2, 4)), M0F)
    IN  ToInt(SHR(MUL(i3, M01), 56))

num_blocks(count) == (size_in_bytes(count) + sizeof_ElementType - 1) \div sizeof_ElementType

\* the loop of bit_scan_forward after idx iterations: mask has been shifted
\* right idx times, so (mask & 1) is bit idx of the argument
RECURSIVE bsf_loop(_, _)
bsf_loop(mask, idx) ==
    IF AND(SHR(mask, idx), One) = Zero THEN bsf_loop(mask, idx + 1) ELSE idx

bit_scan_forward(mask) == IF mask = Zero THEN -1 ELSE bsf_loop(mask, 0)

\* ------------------------------------------------------------------------
\* bytes of a word buffer
\* ------------------------------------------------------------------------
Byte00 == {}

ByteFF == 0..7

\* ((uint8*)p)[k]
byte_at(words, k) == {b \in 0..7 : (8 * (k % 8) + b) \in words[k \div 8]}

\* memset(ptr + off, val, n) on the bytes off .. off+n-1
memset(words, off, val, n) ==
    [w \in DOMAIN words |->
        {b \in BitPos :
            LET k == 8 * w + (b \div 8)
            IN  IF off <= k /\ k < off + n THEN (b % 8) \in val ELSE b \in words[w]}]

\* memcpy(dst, src, n): the first n bytes of dst become those of src
memcpy(dst, src, n) ==
    [w \in DOMAIN dst |->
        {b \in BitPos :
            LET k == 8 * w + (b \div 8)
            IN  IF k < n THEN b \in src[w] ELSE b \in dst[w]}]

\* memcmp(p, q, n) == 0 for byte offsets p, q into the same buffer
memcmp_eq(words, p, q, n) ==
    \A i \in 0..(n - 1) : byte_at(words, p + i) = byte_at(words, q + i)

\* ------------------------------------------------------------------------
\* namespace bitfield: operations on a Bitfield passed by value.
\* `words` is the buffer field.ptr points to, `count` is field.count.
\* ------------------------------------------------------------------------
set_all(words, count) == memset(words, 0, ByteFF, size_in_bytes(count))

clear_all(words, count) == memset(words, 0, Byte00, size_in_bytes(count))

\* invert_all over the blocks that lie wholly below count
invert_all_whole_blocks(words, count) ==
    [i \in DOMAIN words |-> IF i < block_idx(count) THEN NOT(words[i]) ELSE words[i]]

invert_all(words, count) ==
    [i \in DOMAIN words |-> IF i < num_blocks(count) THEN NOT(words[i]) ELSE words[i]]

\* ((uint32*)field.data())[i], zero-extended to 64 bits
u32_at(words, i) ==
    IF i % 2 = 0 THEN AND(words[i \div 2], 0..31) ELSE SHR(words[i \div 2], 32)

RECURSIVE nbs_loop(_, _, _)
nbs_loop(words, i, size) ==
    IF i < size THEN number_of_set_bits(u32_at(words, i)) + nbs_loop(words, i + 1, size)
    ELSE 0

\* number_of_bits_set counting the whole last 32-bit chunk, without the tail mask
number_of_bits_set_unmasked(words, count) ==
    LET stride == 32
        size == count \div stride
        rest == count % stride
    IN  nbs_loop(words, 0, size)
        + (IF rest # 0 THEN number_of_set_bits(u32_at(words, size)) ELSE 0)

number_of_bits_set(words, count) ==
    LET stride == 32
        size == count \div stride
        rest == count % stride
    IN  nbs_loop(words, 0, size)
        + (IF rest # 0
           THEN number_of_set_bits(AND(u32_at(words, size), SUB(bit_pattern(rest), One)))
           ELSE 0)

\* set_range without the memset of the interior blocks
set_range_no_interior(words, beg, end) ==
    LET beg_blk == block_idx(beg)
        end_blk == block_idx(end)
    IN  IF beg_blk = end_blk
        THEN LET bits == XOR(SUB(bit_pattern(beg), One), SUB(bit_pattern(end), One))
             IN  [words EXCEPT ![beg_blk] = OR(@, bits)]
        ELSE LET w1 == [words EXCEPT ![beg_blk] = OR(@, NOT(SUB(bit_pattern(beg), One)))]
             IN  [w1 EXCEPT ![end_blk] = OR(@, SUB(bit_pattern(end), One))]

set_range(words, beg, end) ==
    LET beg_blk == block_idx(beg)
        end_blk == block_idx(end)
    IN  IF beg_blk = end_blk
        THEN LET bits == XOR(SUB(bit_pattern(beg), One), SUB(bit_pattern(end), One))
             IN  [words EXCEPT ![beg_blk] = OR(@, bits)]
        ELSE LET w1 == [words EXCEPT ![beg_blk] = OR(@, NOT(SUB(bit_pattern(beg), One)))]
                 w2 == [w1 EXCEPT ![end_blk] = OR(@, SUB(bit_pattern(end), One))]
                 size == end_blk - beg_blk - 1
             IN  IF size > 0
                 THEN memset(w2, (beg_blk + 1) * sizeof_ElementType, ByteFF,
                             size * sizeof_ElementType)
                 ELSE w2

\* any_bit_set_in_range without the scan of the interior blocks
any_bit_set_in_range_no_interior(words, beg, end) ==
    LET beg_blk == block_idx(beg)
        end_blk == block_idx(end)
    IN  IF beg_blk = end_blk
        THEN LET bit_mask == XOR(SUB(bit_pattern(beg), One), SUB(bit_pattern(end), One))
             IN  AND(words[beg_blk], bit_mask) # Zero
        ELSE IF AND(words[beg_blk], NOT(SUB(bit_pattern(beg), One))) # Zero THEN TRUE
        ELSE IF AND(words[end_blk], SUB(bit_pattern(end), One)) # Zero THEN TRUE
        ELSE FALSE

any_bit_set_in_range(words, beg, end) ==
    LET beg_blk == block_idx(beg)
        end_blk == block_idx(end)
    IN  IF beg_blk = end_blk
        THEN LET bit_mask == XOR(SUB(bit_pattern(beg), One), SUB(bit_pattern(end), One))
             IN  AND(words[beg_blk], bit_mask) # Zero
        ELSE IF AND(words[beg_blk], NOT(SUB(bit_pattern(beg), One))) # Zero THEN TRUE
        ELSE IF AND(words[end_blk], SUB(bit_pattern(end), One)) # Zero THEN TRUE
        ELSE LET size == end_blk - beg_blk - 1
                 p == (beg_blk + 1) * sizeof_ElementType
                 s == size * sizeof_ElementType
             IN  IF size > 0
                 THEN ~(byte_at(words, p) = Byte00 /\ memcmp_eq(words, p, p + 1, s - 1))
                 ELSE FALSE

\* the loop runs i over 0 .. end_blk_idx - 2 (end_blk_idx >= 1 here), then the
\* word at end_blk_idx is tested under the mask of field.count
any_bit_set(words, count) ==
    LET beg_blk_idx == block_idx(0)
        end_blk_idx == block_idx(count)
    IN  IF beg_blk_idx = end_blk_idx
        THEN LET bit_mask == XOR(SUB(bit_pattern(0), One), SUB(bit_pattern(count), One))
             IN  AND(words[beg_blk_idx], bit_mask) # Zero
        ELSE \/ \E i \in 0..(end_blk_idx - 2) : words[i] # Zero
             \/ AND(words[end_blk_idx], SUB(bit_pattern(count), One)) # Zero

\* all_bits_set testing the first byte only
all_bits_set_first_byte(words, count) == byte_at(words, 0) = ByteFF

\* p[0] == 0xFF && !memcmp(p, p + 1, s - 1) with s = size_in_bytes
all_bits_set(words, count) ==
    /\ byte_at(words, 0) = ByteFF
    /\ memcmp_eq(words, 0, 1, size_in_bytes(count) - 1)

\* all_bits_set_in_range without the test of the last block
all_bits_set_in_range_no_tail(words, beg, end) ==
    LET beg_blk == block_idx(beg)
        end_blk == block_idx(end)
    IN  IF beg_blk = end_blk
        THEN LET bit_mask == XOR(SUB(bit_pattern(beg), One), SUB(bit_pattern(end), One))
             IN  AND(words[beg_blk], bit_mask) = bit_mask
        ELSE IF AND(words[beg_blk], NOT(SUB(bit_pattern(beg), One)))
                    # NOT(SUB(bit_pattern(beg), One)) THEN FALSE
        ELSE LET size == end_blk - beg_blk - 1
                 p == (beg_blk + 1) * sizeof_ElementType
                 s == size * sizeof_ElementType
             IN  IF size > 0
                 THEN byte_at(words, p) = ByteFF /\ memcmp_eq(words, p, p + 1, s - 1)
                 ELSE TRUE

all_bits_set_in_range(words, beg, end) ==
    LET beg_blk == block_idx(beg)
        end_blk == block_idx(end)
    IN  IF beg_blk = end_blk
        THEN LET bit_mask == XOR(SUB(bit_pattern(beg), One), SUB(bit_pattern(end), One))
             IN  AND(words[beg_blk], bit_mask) = bit_mask
        ELSE IF AND(words[beg_blk], NOT(SUB(bit_pattern(beg), One)))
                    # NOT(SUB(bit_pattern(beg), One)) THEN FALSE
        ELSE IF AND(words[end_blk], SUB(bit_pattern(end), One))
                    # SUB(bit_pattern(end), One) THEN FALSE
        ELSE LET size == end_blk - beg_blk - 1
                 p == (beg_blk + 1) * sizeof_ElementType
                 s == size * sizeof_ElementType
             IN  IF size > 0
                 THEN byte_at(words, p) = ByteFF /\ memcmp_eq(words, p, p + 1, s - 1)
                 ELSE TRUE

\* the for loop and the last-block test of find_next_bit_set (lines 231-244)
RECURSIVE fnbs_loop(_, _, _, _)
fnbs_loop(words, count, blk_idx, offset) ==
    IF blk_idx < num_blocks(count) - 1
    THEN IF words[blk_idx] # Zero
         THEN offset + bit_scan_forward(words[blk_idx])
         ELSE fnbs_loop(words, count, blk_idx + 1, offset + bits_per_block)
    ELSE LET mask == AND(words[blk_idx], SUB(bit_pattern(count), One))
         IN  IF mask # Zero THEN offset + bit_scan_forward(mask) ELSE -1

find_next_bit_set(words, count, offset) ==
    IF offset >= count THEN -1
    ELSE LET blk_idx == offset \div bits_per_block
             mask == AND(words[blk_idx], NOT(SUB(bit_pattern(offset), One)))
         IN  IF mask # Zero THEN bit_scan_forward(mask)
             ELSE fnbs_loop(words, count, blk_idx + 1, offset + bits_per_block)

\* ------------------------------------------------------------------------
\* the indices i of the words field.ptr[i] an operation reads or writes
\* ------------------------------------------------------------------------
\* set_range: ptr[beg_blk], ptr[end_blk] and the memset over the blocks between
set_range_words(beg, end) ==
    LET beg_blk == block_idx(beg)
        end_blk == block_idx(end)
    IN  IF beg_blk = end_blk THEN {beg_blk}
        ELSE {beg_blk, end_blk} \cup ((beg_blk + 1)..(end_blk - 1))

\* any_bit_set_in_range: ptr[beg_blk]; ptr[end_blk] when the first test did
\* not return; the blocks between when the second did not either
any_bit_set_in_range_words(words, beg, end) ==
    LET beg_blk == block_idx(beg)
        end_blk == block_idx(end)
    IN  IF beg_blk = end_blk THEN {beg_blk}
        ELSE IF AND(words[beg_blk], NOT(SUB(bit_pattern(beg), One))) # Zero THEN {beg_blk}
        ELSE IF AND(words[end_blk], SUB(bit_pattern(end), One)) # Zero THEN {beg_blk, end_blk}
        ELSE {beg_blk, end_blk} \cup ((beg_blk + 1)..(end_blk - 1))

\* all_bits_set_in_range: the same three steps with the tests for all ones
all_bits_set_in_range_words(words, beg, end) ==
    LET beg_blk == block_idx(beg)
        end_blk == block_idx(end)
    IN  IF beg_blk = end_blk THEN {beg_blk}
        ELSE IF AND(words[beg_blk], NOT(SUB(bit_pattern(beg), One)))
                    # NOT(SUB(bit_pattern(beg), One)) THEN {beg_blk}
        ELSE IF AND(words[end_blk], SUB(bit_pattern(end), One))
                    # SUB(bit_pattern(end), One) THEN {beg_blk, end_blk}
        ELSE {beg_blk, end_blk} \cup ((beg_blk + 1)..(end_blk - 1))

\* any_bit_set: ptr[0] in one block; else ptr[i] up to the first non-zero word
\* of the loop, and ptr[end_blk_idx] when the loop found none
any_bit_set_words(words, count) ==
    LET beg_blk_idx == block_idx(0)
        end_blk_idx == block_idx(count)
        hit == {i \in 0..(end_blk_idx - 2) : words[i] # Zero}
    IN  IF beg_blk_idx = end_blk_idx THEN {beg_blk_idx}
        ELSE IF hit # {} THEN {i \in 0..(end_blk_idx - 2) : \A j \in hit : i <= j}
        ELSE (0..(end_blk_idx - 2)) \cup {end_blk_idx}

\* the loop and the last test of find_next_bit_set: ptr[blk_idx] in each
RECURSIVE fnbs_loop_words(_, _, _)
fnbs_loop_words(words, count, blk_idx) ==
    IF blk_idx < num_blocks(count) - 1
    THEN IF words[blk_idx] # Zero
         THEN {blk_idx}
         ELSE {blk_idx} \cup fnbs_loop_words(words, count, blk_idx + 1)
    ELSE {blk_idx}

\* find_next_bit_set: none when offset >= size(); ptr[blk_idx] of the starting
\* block; the loop from ++blk_idx on when that word had no bit at or after offset
find_next_bit_set_words(words, count, offset) ==
    IF offset >= count THEN {}
    ELSE LET blk_idx == offset \div bits_per_block
             mask == AND(words[blk_idx], NOT(SUB(bit_pattern(offset), One)))
         IN  IF mask # Zero THEN {blk_idx}
             ELSE {blk_idx} \cup fnbs_loop_words(words, count, blk_idx + 1)

get_bit(words, idx) == AND(words[block_idx(idx)], bit_pattern(idx)) # Zero

set_bit(words, idx) == [words EXCEPT ![block_idx(idx)] = OR(@, bit_pattern(idx))]

\* clear_bit toggling the bit
clear_bit_toggle(words, idx) == [words EXCEPT ![block_idx(idx)] = XOR(@, bit_pattern(idx))]

clear_bit(words, idx) == [words EXCEPT ![block_idx(idx)] = AND(@, NOT(bit_pattern(idx)))]

\* the word stored by invert_bit; the bool it returns is that word != 0
invert_bit(words, idx) == [words EXCEPT ![block_idx(idx)] = XOR(@, bit_pattern(idx))]

invert_bit_ret(words, idx) == XOR(words[block_idx(idx)], bit_pattern(idx)) # Zero

\* dst.ptr[i] = f(src_a.ptr[i], src_b.ptr[i]) for i < num_blocks(dst); reading
\* word i of a source that shares dst's buffer happens before word i is stored
and_field(dst, src_a, src_b, count) ==
    [i \in DOMAIN dst |-> IF i < num_blocks(count) THEN AND(src_a[i], src_b[i]) ELSE dst[i]]

\* and_not_field complementing src_a instead of src_b
and_not_field_swapped(dst, src_a, src_b, count) ==
    [i \in DOMAIN dst |-> IF i < num_blocks(count) THEN AND(NOT(src_a[i]), src_b[i]) ELSE dst[i]]

and_not_field(dst, src_a, src_b, count) ==
    [i \in DOMAIN dst |-> IF i < num_blocks(count) THEN AND(src_a[i], NOT(src_b[i])) ELSE dst[i]]

or_field(dst, src_a, src_b, count) ==
    [i \in DOMAIN dst |-> IF i < num_blocks(count) THEN OR(src_a[i], src_b[i]) ELSE dst[i]]

or_not_field(dst, src_a, src_b, count) ==
    [i \in DOMAIN dst |-> IF i < num_blocks(count) THEN OR(src_a[i], NOT(src_b[i])) ELSE dst[i]]

xor_field(dst, src_a, src_b, count) ==
    [i \in DOMAIN dst |-> IF i < num_blocks(count) THEN XOR(src_a[i], src_b[i]) ELSE dst[i]]

\* copy of the bytes that lie wholly below count
copy_whole_bytes(dst, src, count) == memcpy(dst, src, count \div 8)

copy(dst, src, count) == memcpy(dst, src, size_in_bytes(count))

\* extract_data_from_mask: res is [out_data, out_count].
\* one iteration of the inner loop: get_bit(mask, i) is evaluated (tested
\* records the indices it was evaluated on) and in_data[i] is appended when set
edfm_step(res, in_data, words, i) ==
    IF get_bit(words, i)
    THEN [out_data |-> [res.out_data EXCEPT ![res.out_count] = in_data[i]],
          out_count |-> res.out_count + 1,
          tested |-> res.tested \cup {i}]
    ELSE [res EXCEPT !.tested = @ \cup {i}]

\* the iterations lo, lo+1, .., hi-1 of the inner loop, in this order
RECURSIVE edfm_iter(_, _, _, _, _)
edfm_iter(res, in_data, words, lo, hi) ==
    IF lo >= hi THEN res
    ELSE IF hi = lo + 1 THEN edfm_step(res, in_data, words, lo)
    ELSE LET mid == (lo + hi) \div 2
             left == edfm_iter(res, in_data, words, lo, mid)
         IN  \* the test makes the evaluator finish the first half before it
             \* enters the second; out_count never decreases
             IF left.out_count >= res.out_count
             THEN edfm_iter(left, in_data, words, mid, hi)
             ELSE left

\* the inner loop starting one index late
edfm_inner_late(res, in_data, words, count, i) == edfm_iter(res, in_data, words, i + 1, count)

\* the inner loop runs i from its entry value up to mask.size(); the outer
\* loop then adds bits_per_block to i and exits
edfm_inner(res, in_data, words, count, i) == edfm_iter(res, in_data, words, i, count)

RECURSIVE edfm_outer(_, _, _, _, _)
edfm_outer(res, in_data, words, count, i) ==
    IF i < count
    THEN IF words[i \div bits_per_block] # Zero
         THEN edfm_inner(res, in_data, words, count, i)
         ELSE edfm_outer(res, in_data, words, count, i + bits_per_block)
    ELSE res

extract_data_from_mask(out_data, in_data, words, count) ==
    edfm_outer([out_data |-> out_data, out_count |-> 0, tested |-> {}],
               in_data, words, count, 0)

\* ------------------------------------------------------------------------
\* lifecycle: allocation and init
\* ------------------------------------------------------------------------
NULL == 0

\* no buffer
NoWords == [i \in {} |-> Zero]

\* ALIGNED_MALLOC(bytes, 16): the words that overlap the new allocation and the
\* word after it, every byte holding the value g the allocator left there
ALIGNED_MALLOC(bytes, g) ==
    [w \in 0..((bytes + sizeof_ElementType - 1) \div sizeof_ElementType) |->
        {b \in BitPos : (b % 8) \in g}]

\* the buffer of init(field, num_bits): malloc, then memset of size_in_bytes
init(num_bits, g) ==
    memset(ALIGNED_MALLOC(size_in_bytes(num_bits), g), 0, Byte00, size_in_bytes(num_bits))

\* Bitfield::empty()
empty(field) == field.count > 0

\* Bitfield::operator bool()
operator_bool(field) == field.ptr # NULL

\* the buffer of init(field, src) without the memcpy
init_src_no_copy(src_words, src_count, g) == ALIGNED_MALLOC(size_in_bytes(src_count), g)

\* the buffer of init(field, src) for a src with storage: malloc of
\* src.size_in_bytes(), then memcpy of as many bytes from src.ptr
init_src(src_words, src_count, g) ==
    memcpy(ALIGNED_MALLOC(size_in_bytes(src_count), g), src_words, size_in_bytes(src_count))

\* free that resets the pointer only
free_keeps_count(field) == [field EXCEPT !.ptr = NULL]

\* the struct free(field) leaves: reset when it had storage, else untouched
free(field) == IF field.ptr # NULL THEN [ptr |-> NULL, count |-> 0] ELSE field

\* ------------------------------------------------------------------------
\* bounds and input sets
\* ------------------------------------------------------------------------
\* mutating calls made after the initial state
MaxSteps == 1

\* results collected by one scan loop
MaxScan == 4

\* calls of init and free made after the initial state
MaxLife == 2

Handles == 1..3

\* the handles init and free are called on
LifeHandles == 1..2

\* bit counts given to init
LifeSizes == {10, 130}

\* contents the first bitset can start with in the lifecycle runs
LifeKinds == {1, 2}

AllocIds == 1..3

\* bit counts: one block with padding, two whole blocks, three blocks
Sizes == {10, 128, 130}

\* what the allocator may have left in a byte
GarbageBytes == {Byte00, ByteFF}

IdxPool(n) == {i \in {0, 9, 64, 129} : i < n}

\* indices at and after bit_count: the first padding bit, the next one, and
\* bit 0 of the word after the last block
PastPool(n) == {n, n + 1, bits_per_block * num_blocks(n)}

EndPool(n) == IF n <= bits_per_block THEN {0, 2, 5, n} ELSE {0, 5, 64, 70, n}

OffsetPool(n) == {0, 3, 5, 9, 64, 71, 129, n}

\* in_data arrays for extract_data_from_mask: distinct values, repeated values
DataPool(n) == {[i \in 0..(n - 1) |-> i + 100], [i \in 0..(n - 1) |-> i % 3]}

RECURSIVE set_bits(_, _)
set_bits(words, S) ==
    IF S = {} THEN words
    ELSE LET i == CHOOSE x \in S : TRUE
         IN  set_bits(set_bit(words, i), S \ {i})

Sparse(n) == {i \in {2, 70, 75, n - 1} : i < n}

\* contents a bitset of n bits can have when the run starts: fresh from init,
\* a few single bits set, filled by set_all, or one range set
Content(n, g, k) ==
    CASE k = 0 -> init(n, g)
      [] k = 1 -> set_bits(init(n, g), Sparse(n))
      [] k = 2 -> set_all(init(n, g), n)
      [] OTHER -> set_range(init(n, g), 5, n - 3)

Kinds == 0..3

\* the bit counts and contents of the operands of the field combinators
CombSizes == {10, 130}

CombKinds == {1, 3}

\* (dst, src_a, src_b): three bitsets, dst shared with a source, all the same
Operands == {<<1, 2, 3>>, <<1, 1, 2>>, <<1, 2, 1>>, <<1, 2, 2>>, <<1, 1, 1>>}

\* (dst, src) of copy
CopyOperands == {<<1, 2>>, <<1, 1>>}

\* ------------------------------------------------------------------------
\* state
\* ------------------------------------------------------------------------
VARIABLES
    fields,     \* handle -> struct Bitfield: [ptr, count]
    heap,       \* allocation -> its words (NoWords when not allocated)
    allocated,  \* allocation -> bytes ALIGNED_MALLOC was asked for (0: not live)
    last,       \* the last call: operation, operands, result, state before it
    steps,      \* calls on the bits made so far
    lifecalls   \* calls of init and free made so far

vars == <<fields, heap, allocated, last, steps, lifecalls>>

Initialised(h) == fields[h].ptr # NULL

W(h) == heap[fields[h].ptr]

N(h) == fields[h].count

Call(op, h, x, y, ret) ==
    [op |-> op, h |-> h, x |-> x, y |-> y, ret |-> ret, pre |-> heap,
     old |-> [fields |-> fields, allocated |-> allocated], fault |-> FALSE]

NoCall ==
    [op |-> "none", h |-> 0, x |-> 0, y |-> 0, ret |-> 0, pre |-> <<>>,
     old |-> <<>>, fault |-> FALSE]

\* one initialised bitset, the other handles default-constructed (copy and the
\* combinators can then only be called with this bitset as every operand)
Init ==
    \E n \in Sizes, g \in GarbageBytes, k \in Kinds :
        /\ fields = [h \in Handles |-> IF h = 1 THEN [ptr |-> 1, count |-> n]
                                                ELSE [ptr |-> NULL, count |-> 0]]
        /\ heap = [a \in AllocIds |-> IF a = 1 THEN Content(n, g, k) ELSE NoWords]
        /\ allocated = [a \in AllocIds |-> IF a = 1 THEN size_in_bytes(n) ELSE 0]
        /\ last = NoCall
        /\ steps = 0
        /\ lifecalls = 0

ReadOnly == {"empty", "operator bool", "get_bit", "all_bits_set", "any_bit_set", "number_of_bits_set", "any_bit_set_in_range", "all_bits_set_in_range",
             "find_next_bit_set", "extract_data_from_mask", "scan"}

\* a call that stores new words in the buffer of h
Mutate(op, h, x, y, ret, words) ==
    /\ steps < MaxSteps
    /\ last.op \notin ReadOnly
    /\ heap' = [heap EXCEPT ![fields[h].ptr] = words]
    /\ last' = Call(op, h, x, y, ret)
    /\ steps' = steps + 1
    /\ UNCHANGED <<fields, allocated, lifecalls>>

\* a call that only reads; a run makes its mutating calls and ends with one
\* read-only call or one scan loop
Query(op, h, x, y, ret) ==
    /\ last.op \notin ReadOnly
    /\ last' = Call(op, h, x, y, ret)
    /\ UNCHANGED <<fields, heap, allocated, steps, lifecalls>>

\* get_bit, set_bit, clear_bit and invert_bit take any idx: no statement of
\* theirs compares idx with field.count
GetBit(h) ==
    /\ Initialised(h)
    /\ \E idx \in IdxPool(N(h)) \cup PastPool(N(h)) :
          Query("get_bit", h, idx, 0, get_bit(W(h), idx))

SetBit(h) ==
    /\ Initialised(h)
    /\ \E idx \in IdxPool(N(h)) \cup PastPool(N(h)) : Mutate("set_bit", h, idx, 0, 0, set_bit(W(h), idx))

ClearBit(h) ==
    /\ Initialised(h)
    /\ \E idx \in IdxPool(N(h)) \cup PastPool(N(h)) : Mutate("clear_bit", h, idx, 0, 0, clear_bit(W(h), idx))

InvertBit(h) ==
    /\ Initialised(h)
    /\ \E idx \in IdxPool(N(h)) \cup PastPool(N(h)) :
          Mutate("invert_bit", h, idx, 0, invert_bit_ret(W(h), idx), invert_bit(W(h), idx))

SetRange(h) ==
    /\ Initialised(h)
    /\ \E beg \in EndPool(N(h)), end \in EndPool(N(h)) \cup {N(h) + 1} :
          /\ beg <= end
          /\ Mutate("set_range", h, beg, end, 0, set_range(W(h), beg, end))

SetAll(h) == Initialised(h) /\ Mutate("set_all", h, 0, 0, 0, set_all(W(h), N(h)))

ClearAll(h) == Initialised(h) /\ Mutate("clear_all", h, 0, 0, 0, clear_all(W(h), N(h)))

InvertAll(h) == Initialised(h) /\ Mutate("invert_all", h, 0, 0, 0, invert_all(W(h), N(h)))

AnyBitSet(h) == Initialised(h) /\ Query("any_bit_set", h, 0, 0, any_bit_set(W(h), N(h)))

AllBitsSet(h) == Initialised(h) /\ Query("all_bits_set", h, 0, 0, all_bits_set(W(h), N(h)))

NumberOfBitsSet(h) ==
    /\ Initialised(h)
    /\ Query("number_of_bits_set", h, 0, 0, number_of_bits_set(W(h), N(h)))

AnyBitSetInRange(h) ==
    /\ Initialised(h)
    /\ \E beg \in EndPool(N(h)), end \in EndPool(N(h)) :
          /\ beg <= end
          /\ Query("any_bit_set_in_range", h, beg, end, any_bit_set_in_range(W(h), beg, end))

AllBitsSetInRange(h) ==
    /\ Initialised(h)
    /\ \E beg \in EndPool(N(h)), end \in EndPool(N(h)) :
          /\ beg <= end
          /\ Query("all_bits_set_in_range", h, beg, end, all_bits_set_in_range(W(h), beg, end))

FindNextBitSet(h) ==
    /\ Initialised(h)
    /\ \E offset \in OffsetPool(N(h)) :
          Query("find_next_bit_set", h, offset, 0, find_next_bit_set(W(h), N(h), offset))

\* out_data has room for bit_count elements, each -1 before the call
ExtractDataFromMask(h) ==
    /\ Initialised(h)
    /\ \E in_data \in DataPool(N(h)) :
          Query("extract_data_from_mask", h, in_data, 0,
                extract_data_from_mask([i \in 0..(N(h) - 1) |-> -1], in_data, W(h), N(h)))

\* the caller's loop  i = find_next_bit_set(b, 0); while (i != -1) { ...;
\* i = find_next_bit_set(b, i + 1); }  -- x is i, ret the indices seen so far
ScanStart(h) ==
    /\ Initialised(h)
    /\ LET i == find_next_bit_set(W(h), N(h), 0)
       IN  Query("scan", h, i, 0, IF i = -1 THEN <<>> ELSE <<i>>)

ScanStep ==
    /\ last.op = "scan"
    /\ last.x # -1
    /\ Len(last.ret) < MaxScan
    /\ LET i == find_next_bit_set(W(last.h), N(last.h), last.x + 1)
       IN  last' = [last EXCEPT !.x = i, !.ret = IF i = -1 THEN @ ELSE Append(@, i)]
    /\ UNCHANGED <<fields, heap, allocated, steps, lifecalls>>

\* ASSERT(cond) of core/common.h in a checked build: the call goes on when cond
\* holds and the run is aborted when it does not
ASSERT(cond) == cond

\* copy checking only that src is not smaller than dst
copy_ASSERT_weak(dst_count, src_count) == dst_count <= src_count

\* ASSERT(dst.size() == src.size()) of copy
copy_ASSERT(dst_count, src_count) == dst_count = src_count

\* ASSERT(dst.size() == src_a.size() && dst.size() == src_b.size())
field_ASSERT(dst_count, a_count, b_count) == dst_count = a_count /\ dst_count = b_count

\* a call on (dst, src_a, src_b): a failed ASSERT aborts the run before the
\* loop, otherwise the loop's words are stored in the buffer of dst
Combine(op, t, words) ==
    /\ steps < MaxSteps
    /\ ~last.fault
    /\ last.op \notin ReadOnly
    /\ \A i \in 1..3 : Initialised(t[i])
    /\ steps' = steps + 1
    /\ UNCHANGED <<fields, allocated, lifecalls>>
    /\ IF ASSERT(field_ASSERT(N(t[1]), N(t[2]), N(t[3])))
       THEN /\ heap' = [heap EXCEPT ![fields[t[1]].ptr] = words]
            /\ last' = Call(op, t, 0, 0, 0)
       ELSE /\ last' = [Call(op, t, 0, 0, 0) EXCEPT !.fault = TRUE]
            /\ UNCHANGED heap

AndField ==
    \E t \in Operands : Combine("and_field", t, and_field(W(t[1]), W(t[2]), W(t[3]), N(t[1])))

AndNotField ==
    \E t \in Operands :
        Combine("and_not_field", t, and_not_field(W(t[1]), W(t[2]), W(t[3]), N(t[1])))

OrField ==
    \E t \in Operands : Combine("or_field", t, or_field(W(t[1]), W(t[2]), W(t[3]), N(t[1])))

OrNotField ==
    \E t \in Operands :
        Combine("or_not_field", t, or_not_field(W(t[1]), W(t[2]), W(t[3]), N(t[1])))

XorField ==
    \E t \in Operands : Combine("xor_field", t, xor_field(W(t[1]), W(t[2]), W(t[3]), N(t[1])))

Copy ==
    \E t \in CopyOperands :
        /\ steps < MaxSteps
        /\ ~last.fault
        /\ last.op \notin ReadOnly
        /\ Initialised(t[1]) /\ Initialised(t[2])
        /\ steps' = steps + 1
        /\ UNCHANGED <<fields, allocated, lifecalls>>
        /\ IF ASSERT(copy_ASSERT(N(t[1]), N(t[2])))
           THEN /\ heap' = [heap EXCEPT ![fields[t[1]].ptr] = copy(W(t[1]), W(t[2]), N(t[1]))]
                /\ last' = Call("copy", t, 0, 0, 0)
           ELSE /\ last' = [Call("copy", t, 0, 0, 0) EXCEPT !.fault = TRUE]
                /\ UNCHANGED heap

\* ALIGNED_FREE releasing nothing
Released_nothing(a) == allocated

\* ALIGNED_FREE(a): the allocation is no longer live, its bytes are gone
Released(a) == [x \in AllocIds |-> IF x = a THEN 0 ELSE allocated[x]]

Dropped(a) == [x \in AllocIds |-> IF x = a THEN NoWords ELSE heap[x]]

\* a call of init or free; a run makes these calls before its calls on the bits
LifeCall(op, h, x, ret) ==
    /\ lifecalls < MaxLife
    /\ steps = 0
    /\ last' = Call(op, h, x, 0, ret)
    /\ lifecalls' = lifecalls + 1
    /\ UNCHANGED steps

\* free(&field): ret is the pointer handed to ALIGNED_FREE, NULL when none was
Free(h) ==
    /\ LifeCall("free", h, 0, fields[h].ptr)
    /\ fields' = [fields EXCEPT ![h] = free(fields[h])]
    /\ heap' = Dropped(fields[h].ptr)
    /\ allocated' = Released(fields[h].ptr)

\* init(&field, num_bits): free(field), then a block a that is not live is
\* obtained for size_in_bytes of the new count and zero-filled; ret is the
\* pointer free(field) handed to ALIGNED_FREE
InitBits(h) ==
    \E n \in LifeSizes, g \in GarbageBytes, a \in AllocIds :
        /\ Released(fields[h].ptr)[a] = 0
        /\ LifeCall("init", h, n, fields[h].ptr)
        /\ fields' = [fields EXCEPT ![h] = [ptr |-> a, count |-> n]]
        /\ heap' = [Dropped(fields[h].ptr) EXCEPT ![a] = init(n, g)]
        /\ allocated' = [Released(fields[h].ptr) EXCEPT ![a] = size_in_bytes(n)]

\* init(&field, src) with src another bitset, passed by value: free(field),
\* return when src has no storage, else a new block with the bytes of src
InitSrc(h, s) ==
    /\ h # s
    /\ IF ~Initialised(s)
       THEN /\ LifeCall("init_src", h, s, fields[h].ptr)
            /\ fields' = [fields EXCEPT ![h] = free(fields[h])]
            /\ heap' = Dropped(fields[h].ptr)
            /\ allocated' = Released(fields[h].ptr)
       ELSE \E g \in GarbageBytes, a \in AllocIds :
                /\ Released(fields[h].ptr)[a] = 0
                /\ LifeCall("init_src", h, s, fields[h].ptr)
                /\ fields' = [fields EXCEPT ![h] = [ptr |-> a, count |-> N(s)]]
                /\ heap' = [Dropped(fields[h].ptr) EXCEPT ![a] = init_src(W(s), N(s), g)]
                /\ allocated' = [Released(fields[h].ptr) EXCEPT ![a] = size_in_bytes(N(s))]

\* member functions of the struct, callable in every state of a bitset
Empty(h) == Query("empty", h, 0, 0, empty(fields[h]))

OperatorBool(h) == Query("operator bool", h, 0, 0, operator_bool(fields[h]))

Next ==
    \/ \E h \in Handles : SetBit(h)
    \/ \E h \in Handles : ClearBit(h)
    \/ \E h \in Handles : InvertBit(h)
    \/ \E h \in Handles : SetRange(h)
    \/ \E h \in Handles : SetAll(h)
    \/ \E h \in Handles : ClearAll(h)
    \/ \E h \in Handles : InvertAll(h)
    \/ AndField
    \/ AndNotField
    \/ OrField
    \/ OrNotField
    \/ XorField
    \/ Copy
    \/ \E h \in Handles : GetBit(h)
    \/ \E h \in Handles : AllBitsSet(h)
    \/ \E h \in Handles : AnyBitSet(h)
    \/ \E h \in Handles : NumberOfBitsSet(h)
    \/ \E h \in Handles : AnyBitSetInRange(h)
    \/ \E h \in Handles : AllBitsSetInRange(h)
    \/ \E h \in Handles : FindNextBitSet(h)
    \/ \E h \in Handles : ExtractDataFromMask(h)
    \/ \E h \in Handles : ScanStart(h)
    \/ ScanStep

Spec == Init /\ [][Next]_vars

\* three initialised bitsets, each with its own bit count, content and garbage
InitComb ==
    \E n \in [Handles -> CombSizes], g \in [Handles -> GarbageBytes],
       k \in [Handles -> CombKinds] :
        /\ fields = [h \in Handles |-> [ptr |-> h, count |-> n[h]]]
        /\ heap = [a \in AllocIds |-> Content(n[a], g[a], k[a])]
        /\ allocated = [a \in AllocIds |-> size_in_bytes(n[a])]
        /\ last = NoCall
        /\ steps = 0
        /\ lifecalls = 0

NextComb ==
    \/ AndField
    \/ AndNotField
    \/ OrField
    \/ OrNotField
    \/ XorField
    \/ Copy

SpecComb == InitComb /\ [][NextComb]_vars

\* the first bitset default-constructed or initialised with some content, the
\* others default-constructed
InitLife ==
    \E n \in LifeSizes, g \in GarbageBytes, k \in LifeKinds, made \in BOOLEAN :
        /\ fields = [h \in Handles |-> IF h = 1 /\ made THEN [ptr |-> 1, count |-> n]
                                                        ELSE [ptr |-> NULL, count |-> 0]]
        /\ heap = [a \in AllocIds |-> IF a = 1 /\ made THEN Content(n, g, k) ELSE NoWords]
        /\ allocated = [a \in AllocIds |-> IF a = 1 /\ made THEN size_in_bytes(n) ELSE 0]
        /\ last = NoCall
        /\ steps = 0
        /\ lifecalls = 0

\* init and free calls, followed by calls on the bits
NextLife ==
    \/ \E h \in LifeHandles : InitBits(h)
    \/ \E h \in LifeHandles, s \in LifeHandles : InitSrc(h, s)
    \/ \E h \in LifeHandles : Free(h)
    \/ \E h \in Handles : SetBit(h)
    \/ \E h \in Handles : ClearBit(h)
    \/ \E h \in Handles : InvertAll(h)
    \/ \E h \in LifeHandles : Empty(h)
    \/ \E h \in LifeHandles : OperatorBool(h)

SpecLife == InitLife /\ [][NextLife]_vars

\* ------------------------------------------------------------------------
\* properties
\* ------------------------------------------------------------------------
\* the indices in [0, n) whose bit get_bit reports as set
Bits(words, n) == {i \in 0..(n - 1) : get_bit(words, i)}

\* bits of the allocated words at index >= n
Padding(words, n) ==
    {i \in n..(bits_per_block * num_blocks(n) - 1) : get_bit(words, i)}

Min(S) == CHOOSE i \in S : \A j \in S : i <= j

\* the buffer the last call worked on, after and before the call
Now == heap[fields[last.h].ptr]

Before == last.pre[fields[last.h].ptr]

\* C1: for an offset in [0, bit_count), find_next_bit_set returns the smallest
\* index i >= offset below bit_count whose bit is set, and -1 when there is none.
C1_FindNextIsMinimal ==
    (last.op = "find_next_bit_set" /\ last.x < N(last.h)) =>
        LET S == {i \in Bits(Now, N(last.h)) : i >= last.x}
        IN  IF S = {} THEN last.ret = -1 ELSE last.ret = Min(S)

\* C2: the loop i = find_next_bit_set(b, 0), i = find_next_bit_set(b, i + 1), ..
\* yields the set bits in strictly ascending order without duplicates or
\* omissions, and has yielded all of them when it ends.
C2_ScanEnumerates ==
    last.op = "scan" =>
        LET S == Bits(Now, N(last.h))
        IN  /\ \A k \in 1..Len(last.ret) :
                 /\ last.ret[k] \in S
                 /\ Cardinality({j \in S : j < last.ret[k]}) = k - 1
            /\ (last.x = -1 => Len(last.ret) = Cardinality(S))

\* C3: find_next_bit_set returns -1 or an index in [offset, bit_count), never a
\* padding bit, and returns -1 whenever offset >= bit_count.
C3_NeverPadding ==
    last.op = "find_next_bit_set" =>
        /\ last.ret = -1 \/ (last.x <= last.ret /\ last.ret < N(last.h))
        /\ (last.x >= N(last.h) => last.ret = -1)

\* C4: number_of_bits_set returns the number of indices in [0, bit_count) whose
\* bit is set, whatever the padding bits hold.
C4_PopcountExact ==
    last.op = "number_of_bits_set" => last.ret = Cardinality(Bits(Now, N(last.h)))

C4_Witness ==
    /\ last.op = "number_of_bits_set"
    /\ steps >= 1
    /\ N(last.h) % 32 # 0
    /\ Padding(Now, N(last.h)) # {}
    /\ last.ret > 0

\* C5: after set_range(b, [beg, end)) every bit of [beg, end) is set and every
\* other bit of [0, bit_count) has the value it had before the call.
C5_SetRangeFrame ==
    last.op = "set_range" =>
        \A j \in 0..(N(last.h) - 1) :
            get_bit(Now, j) = ((last.x <= j /\ j < last.y) \/ get_bit(Before, j))

\* a range with a fully covered interior block, over a buffer that had set bits
\* outside the range and clear bits inside it
C5_Witness ==
    /\ last.op = "set_range"
    /\ block_idx(last.y) - block_idx(last.x) >= 2
    /\ \E j \in 0..(N(last.h) - 1) : j < last.x /\ get_bit(Before, j)
    /\ \E j \in 0..(N(last.h) - 1) : j < last.x /\ ~get_bit(Before, j)
    /\ \E j \in last.x..(last.y - 1) : ~get_bit(Before, j)

\* C6: all_bits_set_in_range(b, [beg, end)) is true iff every bit of [beg, end)
\* is set; the empty range gives true.
C6_AllInRange ==
    last.op = "all_bits_set_in_range" =>
        (last.ret <=> \A j \in last.x..(last.y - 1) : get_bit(Now, j))

\* a true result over a range with an interior block while a bit outside the
\* range is clear
C6_Witness ==
    /\ last.op = "all_bits_set_in_range"
    /\ last.ret
    /\ block_idx(last.y) - block_idx(last.x) >= 2
    /\ \E j \in 0..(N(last.h) - 1) : j < last.x /\ ~get_bit(Now, j)

\* C7: any_bit_set_in_range(b, [beg, end)) is true iff some bit of [beg, end) is
\* set; the empty range gives false.
C7_AnyInRange ==
    last.op = "any_bit_set_in_range" =>
        (last.ret <=> \E j \in last.x..(last.y - 1) : get_bit(Now, j))

\* a true result where the only set bits of the range lie in an interior block
C7_Witness ==
    /\ last.op = "any_bit_set_in_range"
    /\ last.ret
    /\ \A j \in last.x..(last.y - 1) :
          get_bit(Now, j) => (block_idx(last.x) < block_idx(j) /\ block_idx(j) < block_idx(last.y))

\* C8: extract_data_from_mask returns number_of_bits_set(mask) and leaves in
\* out[0..count) the elements of in_data at the set bits, in ascending index
\* order, each once; nothing is written at or after out[count].
C8_ExtractCompacts ==
    last.op = "extract_data_from_mask" =>
        LET S == Bits(Now, N(last.h))
            r == last.ret
        IN  /\ r.out_count = number_of_bits_set(Now, N(last.h))
            /\ r.out_count = Cardinality(S)
            /\ r.out_count <= N(last.h)
            /\ \A i \in S : r.out_data[Cardinality({j \in S : j < i})] = last.x[i]
            /\ \A k \in r.out_count..(N(last.h) - 1) : r.out_data[k] = -1

\* a mask of several blocks whose first block is zero, with set bits in a later
\* block and set padding bits
C8_Witness ==
    /\ last.op = "extract_data_from_mask"
    /\ Now[0] = Zero
    /\ last.ret.out_count >= 2
    /\ Padding(Now, N(last.h)) # {}

\* the bit of the buffer of handle h in heap hp
BitOf(hp, h, i) == get_bit(hp[fields[h].ptr], i)

Combinators == {"and_field", "and_not_field", "or_field", "or_not_field", "xor_field"}

\* what the combinator op is to compute from the source bits a and b
Expected(op, a, b) ==
    CASE op = "and_field" -> a /\ b
      [] op = "and_not_field" -> a /\ ~b
      [] op = "or_field" -> a \/ b
      [] op = "or_not_field" -> a \/ ~b
      [] OTHER -> a # b

\* C9: after a combinator on bitsets of equal bit_count, bit i of dst is the
\* combination of the bits i the sources had before the call, for every i in
\* [0, bit_count), also when dst is one of the sources; a source that is not
\* dst is unchanged.
C9_Combinators ==
    (last.op \in Combinators /\ ~last.fault) =>
        LET d == last.h[1]
            a == last.h[2]
            b == last.h[3]
        IN  /\ \A i \in 0..(N(d) - 1) :
                 BitOf(heap, d, i) = Expected(last.op, BitOf(last.pre, a, i), BitOf(last.pre, b, i))
            /\ \A h \in {a, b} \ {d} : heap[fields[h].ptr] = last.pre[fields[h].ptr]

\* dst is also src_a, the sources differ, and the call changed dst
C9_Witness ==
    /\ last.op \in Combinators
    /\ ~last.fault
    /\ last.h[1] = last.h[2]
    /\ last.h[3] # last.h[1]
    /\ Bits(W(last.h[1]), N(last.h[1])) # Bits(last.pre[fields[last.h[1]].ptr], N(last.h[1]))
    /\ Bits(W(last.h[3]), N(last.h[3])) # {}

SizesDiffer(t) == \E i \in 1..Len(t) : N(t[i]) # N(t[1])

\* C10: copy and the combinators, called with bitsets whose bit counts are not
\* all equal, fail their assertion and leave every buffer as it was.
C10_SizeMismatch ==
    (last.op \in Combinators \cup {"copy"} /\ SizesDiffer(last.h)) =>
        (last.fault /\ heap = last.pre)

C10_Witness ==
    /\ last.op = "copy"
    /\ SizesDiffer(last.h)
    /\ last.fault
    /\ Bits(W(last.h[1]), N(last.h[1])) # Bits(W(last.h[2]), N(last.h[1]))

BitCalls == {"get_bit", "set_bit", "clear_bit", "invert_bit"}

\* C11: get_bit, set_bit, clear_bit and invert_bit with an index at or after
\* bit_count, and set_range with end after bit_count, are stopped by a check:
\* the call faults and every buffer is as it was before the call.
C11_OutOfRangeDetected ==
    (\/ last.op \in BitCalls /\ last.x >= N(last.h)
     \/ last.op = "set_range" /\ last.y > N(last.h)) =>
        (last.fault /\ heap = last.pre)

\* C12: the block obtained by init(field, n) and by init(field, src) holds at
\* least num_blocks whole 64-bit words.
C12_StorageCoversBlocks ==
    (last.op \in {"init", "init_src"} /\ Initialised(last.h)) =>
        allocated[fields[last.h].ptr] >= sizeof_ElementType * num_blocks(N(last.h))

\* C13: after init(field, n), whatever field was before, bit_count is n, every
\* bit of [0, n) is clear, number_of_bits_set is 0 and find_next_bit_set from 0
\* finds nothing.
C13_InitClears ==
    last.op = "init" =>
        /\ N(last.h) = last.x
        /\ Bits(Now, N(last.h)) = {}
        /\ number_of_bits_set(Now, N(last.h)) = 0
        /\ find_next_bit_set(Now, N(last.h), 0) = -1

BitMutators == {"set_bit", "clear_bit", "invert_bit", "set_range", "set_all", "clear_all",
                "invert_all"}

\* C14: init(field, src) leaves field without storage and with bit_count 0 when
\* src has no storage; otherwise field gets the bit_count and the bits of src in
\* a block of its own and src is untouched, and a later call that changes the
\* bits of one bitset leaves the buffer of every other bitset as it was.
C14_InitFromSrc ==
    /\ last.op = "init_src" =>
          LET h == last.h
              s == last.x
          IN  IF last.old.fields[s].ptr = NULL
              THEN fields[h] = [ptr |-> NULL, count |-> 0]
              ELSE /\ Initialised(h)
                   /\ N(h) = N(s)
                   /\ \A i \in 0..(N(s) - 1) : BitOf(heap, h, i) = BitOf(last.pre, s, i)
                   /\ fields[h].ptr # fields[s].ptr
                   /\ fields[s] = last.old.fields[s]
                   /\ heap[fields[s].ptr] = last.pre[fields[s].ptr]
    /\ last.op \in BitMutators =>
          \A o \in Handles \ {last.h} :
              Initialised(o) => heap[fields[o].ptr] = last.pre[fields[o].ptr]

\* the second bitset, whose bits can only come from init(field, src), has a bit
\* cleared that the first bitset still has
C14_Witness ==
    /\ last.op = "clear_bit"
    /\ last.h = 2
    /\ last.x < N(2)
    /\ Initialised(1)
    /\ N(1) = N(2)
    /\ get_bit(Before, last.x)
    /\ ~get_bit(W(2), last.x)
    /\ get_bit(W(1), last.x)

\* C15: free(field) on a bitset with storage releases that storage and nothing
\* else and leaves field without storage and with bit_count 0; on a bitset
\* without storage (default-constructed or freed before) it releases nothing
\* and changes nothing.
C15_Free ==
    last.op = "free" =>
        LET was == last.old.fields[last.h]
        IN  /\ fields[last.h] = [ptr |-> NULL, count |-> 0]
            /\ \A o \in Handles \ {last.h} : fields[o] = last.old.fields[o]
            /\ IF was.ptr # NULL
               THEN /\ last.ret = was.ptr
                    /\ last.old.allocated[was.ptr] > 0
                    /\ allocated[was.ptr] = 0
                    /\ \A a \in AllocIds \ {was.ptr} :
                          allocated[a] = last.old.allocated[a] /\ heap[a] = last.pre[a]
               ELSE /\ last.ret = NULL
                    /\ fields = last.old.fields
                    /\ allocated = last.old.allocated
                    /\ heap = last.pre

\* free of a bitset without storage as the second call of a run, no block
\* being live: after free of the same bitset, or on default-constructed ones
C15_Witness ==
    /\ last.op = "free"
    /\ lifecalls = 2
    /\ last.ret = NULL
    /\ \A h \in Handles : fields[h] = [ptr |-> NULL, count |-> 0]
    /\ \A a \in AllocIds : allocated[a] = 0

\* C16: after copy(dst, src) on bitsets of equal bit_count every bit of dst in
\* [0, bit_count) equals that of src, src is unchanged, and no bitset's
\* bit_count, pointer or allocation changed.
C16_Copy ==
    (last.op = "copy" /\ N(last.h[1]) = N(last.h[2])) =>
        LET d == last.h[1]
            s == last.h[2]
        IN  /\ ~last.fault
            /\ \A i \in 0..(N(d) - 1) : BitOf(heap, d, i) = BitOf(heap, s, i)
            /\ heap[fields[s].ptr] = last.pre[fields[s].ptr]
            /\ fields = last.old.fields
            /\ allocated = last.old.allocated

\* dst and src are two bitsets whose bits differed, also in the last byte
C16_Witness ==
    /\ last.op = "copy"
    /\ last.h[1] # last.h[2]
    /\ N(last.h[1]) = N(last.h[2])
    /\ N(last.h[1]) % 8 # 0
    /\ BitOf(last.pre, last.h[1], N(last.h[1]) - 1) # BitOf(last.pre, last.h[2], N(last.h[1]) - 1)
    /\ Bits(W(last.h[1]), N(last.h[1])) # {}

\* C17: for i in [0, bit_count), get_bit(b, i) is true after set_bit(b, i) and
\* false after clear_bit(b, i), and every other bit of the storage words,
\* padding included, is as before.
C17_SetClearBit ==
    (last.op \in {"set_bit", "clear_bit"} /\ last.x < N(last.h)) =>
        /\ get_bit(Now, last.x) = (last.op = "set_bit")
        /\ \A j \in 0..(bits_per_block * num_blocks(N(last.h)) - 1) :
              j # last.x => get_bit(Now, j) = get_bit(Before, j)

\* clear_bit of a clear bit in a bitset with set bits and set padding
C17_Witness ==
    /\ last.op = "clear_bit"
    /\ last.x < N(last.h)
    /\ ~get_bit(Before, last.x)
    /\ Bits(Now, N(last.h)) # {}
    /\ Padding(Now, N(last.h)) # {}

\* C18: after set_all every bit of [0, bit_count) is set and another set_all
\* gives the same words; after clear_all every bit of [0, bit_count) is clear;
\* after invert_all every bit of [0, bit_count) is the complement of what it
\* was and another invert_all gives the words there were before.
C18_BulkOps ==
    /\ last.op = "set_all" =>
          /\ Bits(Now, N(last.h)) = 0..(N(last.h) - 1)
          /\ set_all(Now, N(last.h)) = Now
    /\ last.op = "clear_all" => Bits(Now, N(last.h)) = {}
    /\ last.op = "invert_all" =>
          /\ \A i \in 0..(N(last.h) - 1) : get_bit(Now, i) = ~get_bit(Before, i)
          /\ invert_all(Now, N(last.h)) = Before

\* invert_all of a bitset with set and clear bits whose last block is partial
C18_Witness ==
    /\ last.op = "invert_all"
    /\ N(last.h) % bits_per_block # 0
    /\ Bits(Before, N(last.h)) # {}
    /\ Bits(Now, N(last.h)) # {}

\* C19: all_bits_set is true exactly when every byte of [0, size_in_bytes) is
\* 0xFF: it is false when bit_count is not a multiple of 8 and every bit of
\* [0, bit_count) is set while a padding bit of the last byte is clear, and
\* true on what set_all leaves.
C19_AllBitsSetSeesPadding ==
    last.op = "all_bits_set" =>
        LET n == N(last.h)
        IN  /\ last.ret <=> \A k \in 0..(size_in_bytes(n) - 1) : byte_at(Now, k) = ByteFF
            /\ (/\ n % 8 # 0
                /\ Bits(Now, n) = 0..(n - 1)
                /\ \E i \in n..(8 * size_in_bytes(n) - 1) : ~get_bit(Now, i)) => ~last.ret
            /\ Now = set_all(Now, n) => last.ret

\* every bit of [0, bit_count) set by set_range on a fresh bitset, the padding
\* of the last byte clear
C19_Witness ==
    /\ last.op = "all_bits_set"
    /\ ~last.ret
    /\ steps = 1
    /\ N(last.h) % 8 # 0
    /\ Bits(Now, N(last.h)) = 0..(N(last.h) - 1)
    /\ \A i \in N(last.h)..(8 * size_in_bytes(N(last.h)) - 1) : ~get_bit(Now, i)

\* C20: extract_data_from_mask evaluates get_bit only on indices of blocks
\* whose word is not zero.
C20_SkipsZeroBlocks ==
    last.op = "extract_data_from_mask" =>
        \A i \in last.ret.tested : Now[block_idx(i)] # Zero

\* C21: any_bit_set is true iff some bit of [0, bit_count) is set; it agrees
\* with any_bit_set_in_range over [0, bit_count) and with number_of_bits_set > 0.
C21_AnyBitSet ==
    last.op = "any_bit_set" =>
        /\ last.ret <=> Bits(Now, N(last.h)) # {}
        /\ last.ret <=> any_bit_set_in_range(Now, 0, N(last.h))
        /\ last.ret <=> number_of_bits_set(Now, N(last.h)) > 0

\* the last call had arguments within the preconditions of its operation
InPrecondition ==
    CASE last.op \in BitCalls -> 0 <= last.x /\ last.x < N(last.h)
      [] last.op \in {"set_range", "any_bit_set_in_range", "all_bits_set_in_range"} ->
            0 <= last.x /\ last.x <= last.y /\ last.y <= N(last.h)
      [] last.op = "find_next_bit_set" -> last.x >= 0
      [] last.op \in {"any_bit_set", "invert_all"} -> TRUE
      [] OTHER -> FALSE

\* the word indices the last call read or wrote
Touched ==
    CASE last.op \in BitCalls -> {block_idx(last.x)}
      [] last.op = "set_range" -> set_range_words(last.x, last.y)
      [] last.op = "any_bit_set_in_range" -> any_bit_set_in_range_words(Now, last.x, last.y)
      [] last.op = "all_bits_set_in_range" -> all_bits_set_in_range_words(Now, last.x, last.y)
      [] last.op = "find_next_bit_set" -> find_next_bit_set_words(Now, N(last.h), last.x)
      [] last.op = "any_bit_set" -> any_bit_set_words(Now, N(last.h))
      [] last.op = "invert_all" -> 0..(num_blocks(N(last.h)) - 1)
      [] OTHER -> {}

\* C22: a call within the preconditions of its operation reads and writes
\* only words of index below num_blocks.
C22_WordsInsideStorage ==
    InPrecondition => \A i \in Touched : i < num_blocks(N(last.h))

Owners(a) == {h \in Handles : fields[h].ptr = a}

\* C23: through init(field, n), init(field, src) and free(field) every live
\* allocation is the storage of exactly one bitset; a call releases exactly
\* the storage the bitset had, which was live until then, and no other; after
\* free the bitset has no allocation.
C23_Ownership ==
    /\ \A a \in AllocIds : IF allocated[a] > 0 THEN Cardinality(Owners(a)) = 1
                                               ELSE Owners(a) = {}
    /\ last.op \in {"init", "init_src", "free"} =>
          /\ last.ret = last.old.fields[last.h].ptr
          /\ last.ret # NULL => last.old.allocated[last.ret] > 0
          /\ (last.ret # NULL /\ last.ret # fields[last.h].ptr) => allocated[last.ret] = 0
          /\ \A a \in AllocIds \ {last.ret, fields[last.h].ptr} :
                allocated[a] = last.old.allocated[a]
          /\ last.op = "free" => fields[last.h].ptr = NULL

\* init(field, n) on a bitset that had storage, while another bitset has its own
C23_Witness ==
    /\ last.op = "init"
    /\ last.ret # NULL
    /\ allocated[fields[last.h].ptr] > 0
    /\ \E o \in Handles \ {last.h} : Initialised(o)

\* C24: for i in [0, bit_count), invert_bit(b, i) complements bit i, leaves
\* every other bit of the storage words as it was, and returns the new value
\* of bit i.
C24_InvertBit ==
    (last.op = "invert_bit" /\ last.x < N(last.h)) =>
        /\ get_bit(Now, last.x) = ~get_bit(Before, last.x)
        /\ \A j \in 0..(bits_per_block * num_blocks(N(last.h)) - 1) :
              j # last.x => get_bit(Now, j) = get_bit(Before, j)
        /\ last.ret = get_bit(Now, last.x)

\* C25: empty() is true exactly when bit_count is 0 and the conversion to bool
\* is true exactly when the bitset has storage.
C25_EmptyAndBool ==
    /\ last.op = "empty" => (last.ret <=> N(last.h) = 0)
    /\ last.op = "operator bool" => (last.ret <=> fields[last.h].ptr # NULL)

====
